---- MODULE Spec2Model ----
(***************************************************************************)
(* Model of student_grading.py: the quicksort and binary_search engines,   *)
(* and the menu operations that load, change and save the JSON database.   *)
(*                                                                         *)
(* Python values are tagged with their runtime kind, because the code      *)
(* dispatches on isinstance(value, (int, float)).  A string is a sequence  *)
(* of character codes, so that lower(), strip() and the lexicographic      *)
(* order are computed rather than assumed.  Numbers are the finite,        *)
(* totally ordered floats (modelled by naturals).  List indices are 0-based*)
(* as in the source.                                                       *)
(***************************************************************************)
EXTENDS Integers, Sequences, FiniteSets

VARIABLES
    pc,               \* position of the running operation
    students,         \* the list handed to the operation
    attribute,        \* the attribute key
    reverse,          \* quicksort's reverse flag
    sorted_students,  \* result of quicksort (sort_records:312, filter_records:480)
    resorted,         \* result of sorting sorted_students again
    search_value,     \* binary_search's search_value
    left,             \* binary_search locals
    right,
    first_index,
    i,
    results,
    stack,            \* call stack of the running quicksort, innermost call last
    retval,           \* value returned by the quicksort call that ended last
    heap,             \* the list objects: heap[ref] is the content of list ref
    students_ref,     \* the caller's list object
    result_ref,       \* the list object quicksort returned, 0 before the call
    mutations,        \* how many times the caller changed the returned list
    db,               \* content of students_db.json
    saved,            \* whether the last menu operation called save_database
    op                \* the last menu operation and the student_id typed for it

sortVars == <<sorted_students, resorted>>
searchVars == <<search_value, left, right, first_index, i, results>>
callVars == <<stack, retval>>
heapVars == <<heap, students_ref, result_ref, mutations>>
dbVars == <<db, saved, op>>
restVars == <<heapVars, dbVars>>
vars == <<pc, students, attribute, reverse, sortVars, searchVars, callVars, restVars>>

(***************************************************************************)
(* Bounds and data domains.                                                *)
(***************************************************************************)
MaxLen == 3      \* longest list handed to quicksort
MaxGrade == 2    \* grades are 0..MaxGrade

Num(n) == [kind |-> "num", val |-> n]
Str(s) == [kind |-> "str", val |-> s]

\* "a", "A", "b", "B", "ab", "AB": three classes under lower(), and raw code
\* order ("B" < "a") differs from the lower-cased order ("a" < "b").
Strings == { <<97>>, <<65>>, <<98>>, <<66>>, <<97, 98>>, <<65, 66>> }
Ids == { <<49>>, <<50>> }          \* "1", "2"
Grades == 0..MaxGrade
DefaultText == <<120>>             \* "x"

Record(id, fn, ln, cn, sem, g) ==
    [student_id |-> Str(id), first_name |-> Str(fn), last_name |-> Str(ln),
     course_name |-> Str(cn), semester |-> Str(sem), final_grade |-> Num(g)]

SeqsUpTo(S, n) == UNION { [1..k -> S] : k \in 0..n }

(***************************************************************************)
(* Python built-ins used by the engines.                                   *)
(***************************************************************************)
\* str.lower() on one character code
LowerChar(c) == IF c \in 65..90 THEN c + 32 ELSE c

\* str.lower()
Lower(s) == [k \in 1..Len(s) |-> LowerChar(s[k])]

\* str < str: lexicographic on character codes, a proper prefix is smaller
StrLess(a, b) ==
    \/ /\ Len(a) < Len(b)
       /\ \A k \in 1..Len(a) : a[k] = b[k]
    \/ \E k \in 1..Len(a) :
          /\ k <= Len(b)
          /\ a[k] < b[k]
          /\ \A j \in 1..(k - 1) : a[j] = b[j]

\* isinstance(value, (int, float))
IsNumeric(v) == v.kind = "num"

\* str(value): a string is itself, a float prints as "<digit>.0"
PyStr(v) == IF v.kind = "str" THEN v.val ELSE <<48 + v.val, 46, 48>>

(***************************************************************************)
(* quicksort (lines 197-267).                                              *)
(***************************************************************************)
\* the comparison of one value with the pivot without lower()
ClassifyCaseSensitive(value, pivot) ==
    IF IsNumeric(value) /\ IsNumeric(pivot)
    THEN IF value.val < pivot.val THEN "less"
         ELSE IF value.val > pivot.val THEN "greater" ELSE "equal"
    ELSE IF StrLess(PyStr(value), PyStr(pivot)) THEN "less"
         ELSE IF StrLess(PyStr(pivot), PyStr(value)) THEN "greater" ELSE "equal"

\* lines 234-251: which of less / equal / greater the record goes to
Classify(value, pivot) ==
    IF IsNumeric(value) /\ IsNumeric(pivot)
    THEN IF value.val < pivot.val THEN "less"
         ELSE IF value.val > pivot.val THEN "greater" ELSE "equal"
    ELSE LET value_str == Lower(PyStr(value))
             pivot_str == Lower(PyStr(pivot))
         IN IF StrLess(value_str, pivot_str) THEN "less"
            ELSE IF StrLess(pivot_str, value_str) THEN "greater" ELSE "equal"

\* the partition loop with equal records inserted at the front
PartitionEqualAtFront(list, attr, pivot) ==
    LET F[k \in 0..Len(list)] ==
            IF k = 0 THEN [less |-> <<>>, equal |-> <<>>, greater |-> <<>>]
            ELSE LET student == list[k]
                     c == Classify(student[attr], pivot)
                     p == F[k - 1]
                 IN IF c = "less" THEN [p EXCEPT !.less = Append(@, student)]
                    ELSE IF c = "greater"
                         THEN [p EXCEPT !.greater = Append(@, student)]
                         ELSE [p EXCEPT !.equal = <<student>> \o @]
    IN F[Len(list)]

\* lines 226-251: one pass over the list, appending to less, equal or greater
Partition(list, attr, pivot) ==
    LET F[k \in 0..Len(list)] ==
            IF k = 0 THEN [less |-> <<>>, equal |-> <<>>, greater |-> <<>>]
            ELSE LET student == list[k]
                     c == Classify(student[attr], pivot)
                     p == F[k - 1]
                 IN IF c = "less" THEN [p EXCEPT !.less = Append(@, student)]
                    ELSE IF c = "greater"
                         THEN [p EXCEPT !.greater = Append(@, student)]
                         ELSE [p EXCEPT !.equal = Append(@, student)]
    IN F[Len(list)]

\* lines 222-223: the attribute value of the middle element
Pivot(list, attr) == list[(Len(list) \div 2) + 1][attr]

ReverseSeq(s) == [k \in 1..Len(s) |-> s[Len(s) + 1 - k]]

RECURSIVE quicksort(_, _, _)
\* descending obtained by reversing the ascending result
QuicksortReversing(less, equal, greater, attr, rev) ==
    IF rev
    THEN ReverseSeq(quicksort(less, attr, FALSE) \o equal
                      \o quicksort(greater, attr, FALSE))
    ELSE quicksort(less, attr, rev) \o equal \o quicksort(greater, attr, rev)

\* lines 254-267: recursive combination of the three groups
Combine(less, equal, greater, attr, rev) ==
    IF rev
    THEN quicksort(greater, attr, rev) \o equal \o quicksort(less, attr, rev)
    ELSE quicksort(less, attr, rev) \o equal \o quicksort(greater, attr, rev)

\* lines 217-267
quicksort(list, attr, rev) ==
    IF Len(list) <= 1
    THEN list
    ELSE LET p == Partition(list, attr, Pivot(list, attr))
         IN Combine(p.less, p.equal, p.greater, attr, rev)

(***************************************************************************)
(* SpecSort: quicksort applied to every bounded input, then applied again  *)
(* to its own result.                                                      *)
(***************************************************************************)
SortAttributes == {"semester", "final_grade"}

\* records that differ in identity and in the value of the sorted attribute
RecordsFor(attr) ==
    IF attr = "final_grade"
    THEN { Record(id, DefaultText, DefaultText, DefaultText, DefaultText, g) :
             id \in Ids, g \in Grades }
    ELSE { Record(id, DefaultText, DefaultText, DefaultText, s, 0) :
             id \in Ids, s \in Strings }

\* binary_search is not running
SearchIdle ==
    /\ search_value = Num(0)
    /\ left = 0
    /\ right = 0
    /\ first_index = -1
    /\ i = 0
    /\ results = <<>>

\* no quicksort call is on the stack, no list object and no database in use
CallIdle ==
    /\ stack = <<>>
    /\ retval = <<>>

RestIdle ==
    /\ heap = <<>>
    /\ students_ref = 0
    /\ result_ref = 0
    /\ mutations = 0
    /\ db = <<>>
    /\ saved = FALSE
    /\ op = [name |-> "none", student_id |-> <<>>]

InitSort ==
    /\ pc = "input"
    /\ attribute \in SortAttributes
    /\ reverse \in BOOLEAN
    /\ students \in SeqsUpTo(RecordsFor(attribute), MaxLen)
    /\ sorted_students = <<>>
    /\ resorted = <<>>
    /\ SearchIdle
    /\ CallIdle
    /\ RestIdle

\* sort_records line 312: sorted_students = quicksort(students, attribute, reverse)
SortCall ==
    /\ pc = "input"
    /\ sorted_students' = quicksort(students, attribute, reverse)
    /\ pc' = "sorted"
    /\ UNCHANGED <<restVars, students, attribute, reverse, resorted, searchVars, callVars>>

\* quicksort applied to its own output, same attribute and direction
SortAgain ==
    /\ pc = "sorted"
    /\ resorted' = quicksort(sorted_students, attribute, reverse)
    /\ pc' = "resorted"
    /\ UNCHANGED <<restVars, students, attribute, reverse, sorted_students, searchVars, callVars>>

NextSort == SortCall \/ SortAgain

SpecSort == InitSort /\ [][NextSort]_vars

(***************************************************************************)
(* The comparison rule the properties are stated with.                     *)
(***************************************************************************)
KeyText(v) == Lower(PyStr(v))

KeyEq(x, y) ==
    IF x.kind = "num" /\ y.kind = "num" THEN x.val = y.val
    ELSE KeyText(x) = KeyText(y)

KeyLeq(x, y) ==
    IF x.kind = "num" /\ y.kind = "num" THEN x.val <= y.val
    ELSE KeyText(x) = KeyText(y) \/ StrLess(KeyText(x), KeyText(y))

Range(s) == { s[k] : k \in 1..Len(s) }

Count(r, s) == Cardinality({ k \in 1..Len(s) : s[k] = r })

IsPermutation(a, b) ==
    /\ Len(a) = Len(b)
    /\ \A r \in Range(a) \cup Range(b) : Count(r, a) = Count(r, b)

Ordered(s, attr, rev) ==
    \A k \in 1..(Len(s) - 1) :
        IF rev THEN KeyLeq(s[k + 1][attr], s[k][attr])
        ELSE KeyLeq(s[k][attr], s[k + 1][attr])

\* the records of s whose key equals that of r, in the order they have in s
SameKey(s, attr, v) == SelectSeq(s, LAMBDA r : KeyEq(r[attr], v))

SortStable ==
    pc \in {"sorted", "resorted"} =>
        \A r \in Range(students) :
            SameKey(sorted_students, attribute, r[attribute])
                = SameKey(students, attribute, r[attribute])

\* a descending sort that moved records, with two distinct equal-key records
SortStableWitness ==
    /\ pc = "sorted"
    /\ reverse
    /\ sorted_students # students
    /\ \E j, k \in 1..Len(students) :
          /\ j < k
          /\ students[j] # students[k]
          /\ KeyEq(students[j][attribute], students[k][attribute])

(***************************************************************************)
(* binary_search (lines 326-423), one action per loop iteration.           *)
(***************************************************************************)
\* list[idx] on a Python list: a negative index counts from the end
InRange(list, idx) == idx >= -Len(list) /\ idx < Len(list)

At(list, idx) == IF idx >= 0 THEN list[idx + 1] ELSE list[Len(list) + idx + 1]

\* the same test with the search value compared as typed
MatchesCaseSensitive(current_value, value) ==
    IF IsNumeric(value) /\ IsNumeric(current_value)
    THEN current_value.val = value.val
    ELSE PyStr(current_value) = PyStr(value)

\* lines 389-402 and 408-421: the test of the two scan loops
Matches(current_value, value) ==
    IF IsNumeric(value) /\ IsNumeric(current_value)
    THEN current_value.val = value.val
    ELSE Lower(PyStr(current_value)) = Lower(PyStr(value))

\* the three-way comparison on the strings as typed
ProbeCaseSensitive(mid_value, value) ==
    IF IsNumeric(value) /\ IsNumeric(mid_value)
    THEN IF mid_value.val = value.val THEN "match"
         ELSE IF mid_value.val < value.val THEN "below" ELSE "above"
    ELSE LET mid_str == PyStr(mid_value)
             search_str == PyStr(value)
         IN IF mid_str = search_str THEN "match"
            ELSE IF StrLess(mid_str, search_str) THEN "below" ELSE "above"

\* lines 360-381: the three-way comparison of the loop body
Probe(mid_value, value) ==
    IF IsNumeric(value) /\ IsNumeric(mid_value)
    THEN IF mid_value.val = value.val THEN "match"
         ELSE IF mid_value.val < value.val THEN "below" ELSE "above"
    ELSE LET mid_str == Lower(PyStr(mid_value))
             search_str == Lower(PyStr(value))
         IN IF mid_str = search_str THEN "match"
            ELSE IF StrLess(mid_str, search_str) THEN "below" ELSE "above"

\* the loop body that stops narrowing at the first match it meets
NarrowKeepFirstHit(probe, mid, l, r, fi) ==
    IF probe = "match"
    THEN [left |-> l, right |-> -1, first_index |-> mid]
    ELSE IF probe = "below"
         THEN [left |-> mid + 1, right |-> r, first_index |-> fi]
         ELSE [left |-> l, right |-> mid - 1, first_index |-> fi]

\* the loop body that keeps mid inside the interval after a match
NarrowKeepMid(probe, mid, l, r, fi) ==
    IF probe = "match"
    THEN [left |-> l, right |-> mid, first_index |-> mid]
    ELSE IF probe = "below"
         THEN [left |-> mid + 1, right |-> r, first_index |-> fi]
         ELSE [left |-> l, right |-> mid - 1, first_index |-> fi]

\* lines 364-370 and 375-381: the new left, right and first_index
Narrow(probe, mid, l, r, fi) ==
    IF probe = "match"
    THEN [left |-> l, right |-> mid - 1, first_index |-> mid]
    ELSE IF probe = "below"
         THEN [left |-> mid + 1, right |-> r, first_index |-> fi]
         ELSE [left |-> l, right |-> mid - 1, first_index |-> fi]

\* right initialised to the length of the list
InitialRightLen(list) == Len(list)

\* line 351
InitialRight(list) == Len(list) - 1

\* lines 346-354: the empty list returns [], otherwise the locals are set
BinarySearchCall ==
    /\ pc = "call"
    /\ IF sorted_students = <<>>
       THEN /\ pc' = "done"
            /\ results' = <<>>
            /\ UNCHANGED <<left, right, first_index>>
       ELSE /\ pc' = "loop"
            /\ results' = <<>>
            /\ left' = 0
            /\ right' = InitialRight(sorted_students)
            /\ first_index' = -1
    /\ UNCHANGED <<restVars, students, attribute, reverse, sortVars, search_value, i, callVars>>

\* lines 355-381: one iteration of the binary-search loop
LoopStep ==
    /\ pc = "loop"
    /\ left <= right
    /\ LET mid == (left + right) \div 2
       IN IF ~InRange(sorted_students, mid)
          THEN /\ pc' = "error"      \* IndexError
               /\ UNCHANGED <<left, right, first_index>>
          ELSE LET mid_value == At(sorted_students, mid)[attribute]
                   n == Narrow(Probe(mid_value, search_value), mid,
                               left, right, first_index)
               IN /\ left' = n.left
                  /\ right' = n.right
                  /\ first_index' = n.first_index
                  /\ pc' = "loop"
    /\ UNCHANGED <<restVars, students, attribute, reverse, sortVars, search_value, i, results,
                   callVars>>

\* lines 355 and 384-386: the loop ends; without a match the result is empty
LoopExit ==
    /\ pc = "loop"
    /\ left > right
    /\ IF first_index # -1
       THEN /\ i' = first_index
            /\ pc' = "fwd"
       ELSE /\ pc' = "done"
            /\ UNCHANGED i
    /\ UNCHANGED <<restVars, students, attribute, reverse, sortVars, search_value, left, right,
                   first_index, results, callVars>>

\* lines 387-405: one iteration of the forward scan, or its end
ForwardStep ==
    /\ pc = "fwd"
    /\ IF i < Len(sorted_students)
          /\ Matches(At(sorted_students, i)[attribute], search_value)
       THEN /\ results' = Append(results, At(sorted_students, i))
            /\ i' = i + 1
            /\ pc' = "fwd"
       ELSE /\ i' = first_index - 1
            /\ pc' = "bwd"
            /\ UNCHANGED results
    /\ UNCHANGED <<restVars, students, attribute, reverse, sortVars, search_value, left, right,
                   first_index, callVars>>

\* lines 406-423: one iteration of the backward scan, or the return
BackwardStep ==
    /\ pc = "bwd"
    /\ IF i >= 0 /\ Matches(At(sorted_students, i)[attribute], search_value)
       THEN /\ results' = <<At(sorted_students, i)>> \o results
            /\ i' = i - 1
            /\ pc' = "bwd"
       ELSE /\ pc' = "done"
            /\ UNCHANGED <<results, i>>
    /\ UNCHANGED <<restVars, students, attribute, reverse, sortVars, search_value, left, right,
                   first_index, callVars>>

SearchStep == BinarySearchCall \/ LoopStep \/ LoopExit \/ ForwardStep \/ BackwardStep

(***************************************************************************)
(* SpecSearch: filter_records' composition, quicksort ascending and then   *)
(* binary_search on its result, for every bounded list and search value.   *)
(***************************************************************************)
\* "1", "2", ...: the k-th record of the stored list has its own student_id
IdOf(k) == <<48 + k>>

KeysFor(attr) == IF attr = "final_grade" THEN Grades ELSE Strings

\* a list with pairwise distinct student_id and the given keys under attr
ListOf(attr, keys) ==
    [k \in 1..Len(keys) |->
        IF attr = "final_grade"
        THEN Record(IdOf(k), DefaultText, DefaultText, DefaultText, DefaultText, keys[k])
        ELSE Record(IdOf(k), DefaultText, DefaultText, DefaultText, keys[k], 0)]

SearchValue(attr, key) == IF attr = "final_grade" THEN Num(key) ELSE Str(key)

\* search values of the kind of the attribute, and of the other kind: a
\* number for a string attribute, "1.0" and "a" for the numeric one
SearchValuesFor(attr) ==
    { SearchValue(attr, key) : key \in KeysFor(attr) }
        \cup (IF attr = "final_grade" THEN { Str(<<49, 46, 48>>), Str(<<97>>) }
              ELSE { Num(1) })

InitSearch ==
    /\ pc = "input"
    /\ attribute \in SortAttributes
    /\ reverse = FALSE
    /\ \E keys \in SeqsUpTo(KeysFor(attribute), MaxLen) :
          students = ListOf(attribute, keys)
    /\ sorted_students = <<>>
    /\ resorted = <<>>
    /\ search_value \in SearchValuesFor(attribute)
    /\ left = 0
    /\ right = 0
    /\ first_index = -1
    /\ i = 0
    /\ results = <<>>
    /\ CallIdle
    /\ RestIdle

\* filter_records line 480: sorted_students = quicksort(students, attribute, reverse=False)
FilterSort ==
    /\ pc = "input"
    /\ sorted_students' = quicksort(students, attribute, FALSE)
    /\ pc' = "call"
    /\ UNCHANGED <<restVars, students, attribute, reverse, resorted, searchVars, callVars>>

NextSearch == FilterSort \/ SearchStep

SpecSearch == InitSearch /\ [][NextSearch]_vars

\* 0-based positions of the sorted list whose key equals the search value
MatchPositions ==
    { k \in 0..(Len(sorted_students) - 1) :
        KeyEq(sorted_students[k + 1][attribute], search_value) }

Min(S) == CHOOSE x \in S : \A y \in S : x <= y

\* the loop of lines 355-381 has ended
LoopEnded == (pc = "loop" /\ left > right) \/ pc \in {"fwd", "bwd"}

SearchAbsent ==
    /\ pc # "error"
    /\ (pc = "done" /\ MatchPositions = {}) => results = <<>>

\* a search for a value larger than every key of a full list has returned
SearchAbsentWitness ==
    /\ pc = "done"
    /\ Len(sorted_students) = MaxLen
    /\ MatchPositions = {}
    /\ results = <<>>
    /\ \A k \in 1..Len(sorted_students) :
          ~KeyLeq(search_value, sorted_students[k][attribute])

\* the search of the empty list has returned
SearchEmptyWitness ==
    /\ pc = "done"
    /\ sorted_students = <<>>

\* C6: records whose string keys differ only in letter case are contiguous
\* in quicksort's output, and binary_search with a search value in any letter
\* case returns every record whose lower-cased key is the lower-cased value.
CaseInsensitive ==
    (attribute = "semester" /\ pc \notin {"input", "qs"}) =>
        /\ \A j, k \in 1..Len(sorted_students) :
              (j < k /\ Lower(sorted_students[j].semester.val)
                          = Lower(sorted_students[k].semester.val)) =>
                  \A m \in j..k : Lower(sorted_students[m].semester.val)
                                    = Lower(sorted_students[j].semester.val)
        /\ (pc = "done" /\ ~IsNumeric(search_value)) =>
              \A k \in 1..Len(sorted_students) :
                  Lower(sorted_students[k].semester.val) = Lower(search_value.val)
                      => sorted_students[k] \in Range(results)

\* two records whose keys differ in letter case were found, one of them
\* spelled unlike the search value, which the input held apart
CaseInsensitiveWitness ==
    /\ pc = "done"
    /\ attribute = "semester"
    /\ Len(results) = 2
    /\ results[1].semester # results[2].semester
    /\ results[1].semester # search_value
    /\ Len(students) = 3
    /\ ~KeyEq(students[2].semester, search_value)

\* C7: when the binary-search loop has ended on an ascending list,
\* first_index is -1 if no key equals the search value and the smallest
\* matching index otherwise, so the backward scan inserts nothing.
FirstOccurrence ==
    LoopEnded =>
        /\ first_index = IF MatchPositions = {} THEN -1 ELSE Min(MatchPositions)
        /\ pc = "bwd" =>
              /\ i = first_index - 1
              /\ ~(i >= 0 /\ Matches(At(sorted_students, i)[attribute], search_value))

\* the backward scan is about to run below a first occurrence that is not
\* at index 0, with several matches above
FirstOccurrenceWitness ==
    /\ pc = "bwd"
    /\ first_index >= 1
    /\ Len(results) >= 2

(***************************************************************************)
(* quicksort call by call: every call is a frame on the stack, and the     *)
(* two recursive calls of lines 256-267 run one after the other.           *)
(***************************************************************************)
Frame(list) ==
    [list |-> list, at |-> "enter", less |-> <<>>, equal |-> <<>>,
     greater |-> <<>>, head |-> <<>>]

Top == stack[Len(stack)]

Pop == SubSeq(stack, 1, Len(stack) - 1)

\* the argument of the first recursive call: line 257 or line 264
FirstArg(f, rev) == IF rev THEN f.greater ELSE f.less

\* the argument of the second recursive call: line 259 or line 266
SecondArg(f, rev) == IF rev THEN f.less ELSE f.greater

\* the outermost call quicksort(students, attribute, reverse)
QsCall ==
    /\ pc = "input"
    /\ stack' = <<Frame(students)>>
    /\ pc' = "qs"
    /\ UNCHANGED <<restVars, students, attribute, reverse, sortVars, searchVars, retval>>

\* lines 218-219: a list of at most one record is returned as a copy
QsBase ==
    /\ pc = "qs"
    /\ stack # <<>>
    /\ Top.at = "enter"
    /\ Len(Top.list) <= 1
    /\ retval' = Top.list
    /\ stack' = Pop
    /\ UNCHANGED <<restVars, pc, students, attribute, reverse, sortVars, searchVars>>

\* lines 222-257 (264): partition, then enter the first recursive call
QsPartition ==
    /\ pc = "qs"
    /\ stack # <<>>
    /\ Top.at = "enter"
    /\ Len(Top.list) > 1
    /\ LET p == Partition(Top.list, attribute, Pivot(Top.list, attribute))
           f == [Top EXCEPT !.at = "first", !.less = p.less,
                            !.equal = p.equal, !.greater = p.greater]
       IN stack' = Append(Pop, f) \o <<Frame(FirstArg(f, reverse))>>
    /\ UNCHANGED <<restVars, pc, students, attribute, reverse, sortVars, searchVars, retval>>

\* lines 259 (266): the first call has returned, enter the second
QsSecondCall ==
    /\ pc = "qs"
    /\ stack # <<>>
    /\ Top.at = "first"
    /\ LET f == [Top EXCEPT !.at = "second", !.head = retval]
       IN stack' = Append(Pop, f) \o <<Frame(SecondArg(f, reverse))>>
    /\ UNCHANGED <<restVars, pc, students, attribute, reverse, sortVars, searchVars, retval>>

\* lines 256-260 (263-267): both calls have returned, concatenate and return
QsCombine ==
    /\ pc = "qs"
    /\ stack # <<>>
    /\ Top.at = "second"
    /\ retval' = Top.head \o Top.equal \o retval
    /\ stack' = Pop
    /\ UNCHANGED <<restVars, pc, students, attribute, reverse, sortVars, searchVars>>

\* the outermost call has returned: binary_search is called on its result
QsReturn ==
    /\ pc = "qs"
    /\ stack = <<>>
    /\ sorted_students' = retval
    /\ pc' = "call"
    /\ UNCHANGED <<restVars, students, attribute, reverse, resorted, searchVars, callVars>>

QsStep == QsCall \/ QsBase \/ QsPartition \/ QsSecondCall \/ QsCombine \/ QsReturn

(***************************************************************************)
(* SpecTerm: quicksort in either direction, then binary_search on whatever *)
(* it returned, each running to its return.  The program is sequential:    *)
(* the statement that is enabled is executed.                              *)
(***************************************************************************)
\* "a", "A", "b": ties between keys that differ in case, and distinct keys
TermStrings == { <<97>>, <<65>>, <<98>> }

TermKeysFor(attr) == IF attr = "final_grade" THEN Grades ELSE TermStrings

InitTerm ==
    /\ pc = "input"
    /\ attribute \in SortAttributes
    /\ reverse \in BOOLEAN
    /\ \E keys \in SeqsUpTo(TermKeysFor(attribute), MaxLen) :
          students = ListOf(attribute, keys)
    /\ sorted_students = <<>>
    /\ resorted = <<>>
    /\ \E key \in TermKeysFor(attribute) :
          /\ search_value = SearchValue(attribute, key)
          /\ left = 0
          /\ right = 0
          /\ first_index = -1
          /\ i = 0
          /\ results = <<>>
    /\ CallIdle
    /\ RestIdle

NextTerm == QsStep \/ SearchStep

SpecTerm == InitTerm /\ [][NextTerm]_vars /\ WF_vars(NextTerm)

\* every call on the stack got strictly fewer records than its caller, and
\* a call that has partitioned holds its pivot record in the equal group
StackShrinks ==
    /\ \A k \in 2..Len(stack) : Len(stack[k].list) < Len(stack[k - 1].list)
    /\ \A k \in 1..Len(stack) :
          stack[k].at # "enter" =>
              stack[k].list[(Len(stack[k].list) \div 2) + 1] \in Range(stack[k].equal)

\* an iteration of the binary-search loop strictly shrinks [left, right]
IntervalShrinks ==
    (pc = "loop" /\ pc' = "loop") => (right' - left' < right - left)

\* an iteration of a scan loop moves its index by one
ScanMoves ==
    /\ (pc = "fwd" /\ pc' = "fwd") => i' = i + 1
    /\ (pc = "bwd" /\ pc' = "bwd") => i' = i - 1

\* C9: every call of quicksort and of binary_search returns: the recursive
\* calls get strictly fewer records because the equal group holds the pivot
\* record, every loop iteration shrinks [left, right], and the scans move
\* their index by one.
Terminates ==
    /\ []StackShrinks
    /\ [][IntervalShrinks /\ ScanMoves]_vars
    /\ <>(pc = "done")

\* a descending sort of a full list of distinct keys, searched to the end
TerminatesWitness ==
    /\ pc = "done"
    /\ reverse
    /\ Len(sorted_students) = MaxLen
    /\ sorted_students # students
    /\ sorted_students = quicksort(students, attribute, reverse)
    /\ results # <<>>

(***************************************************************************)
(* quicksort on list objects.  A Python list is an object with identity:   *)
(* heap[ref] is the content of list ref, and every list the code builds    *)
(* (a copy, less, equal, greater, a concatenation) is a new object.        *)
(***************************************************************************)
MaxMutations == 2    \* changes the caller makes to the returned list

\* returning the list itself instead of a copy
ReturnSameList(h, ref) == [heap |-> h, ref |-> ref]

\* line 219: students.copy() is a new list with the same records
CopyList(h, ref) == [heap |-> Append(h, h[ref]), ref |-> Len(h) + 1]

RECURSIVE QuicksortRef(_, _, _, _)
\* lines 217-267 on list objects: returns the new heap and the returned list
QuicksortRef(h, ref, attr, rev) ==
    IF Len(h[ref]) <= 1
    THEN CopyList(h, ref)
    ELSE LET p == Partition(h[ref], attr, Pivot(h[ref], attr))
             less_ref == Len(h) + 1
             equal_ref == Len(h) + 2
             greater_ref == Len(h) + 3
             h1 == h \o <<p.less, p.equal, p.greater>>
             first == QuicksortRef(h1, IF rev THEN greater_ref ELSE less_ref, attr, rev)
             second == QuicksortRef(first.heap, IF rev THEN less_ref ELSE greater_ref,
                                    attr, rev)
             h2 == second.heap
         IN [heap |-> Append(h2, h2[first.ref] \o h2[equal_ref] \o h2[second.ref]),
             ref |-> Len(h2) + 1]

\* a record that is in no input list
NewRecord == Record(<<57>>, DefaultText, DefaultText, DefaultText, DefaultText, 0)

InitHeap ==
    /\ pc = "input"
    /\ attribute \in SortAttributes
    /\ reverse \in BOOLEAN
    /\ \E keys \in SeqsUpTo(KeysFor(attribute), MaxLen) :
          students = ListOf(attribute, keys)
    /\ sorted_students = <<>>
    /\ resorted = <<>>
    /\ SearchIdle
    /\ CallIdle
    /\ heap = <<students>>
    /\ students_ref = 1
    /\ result_ref = 0
    /\ mutations = 0
    /\ db = <<>>
    /\ saved = FALSE
    /\ op = [name |-> "none", student_id |-> <<>>]

heapFrame == <<students, attribute, reverse, sortVars, searchVars, callVars, dbVars>>

\* the caller's call quicksort(students, attribute, reverse)
HeapCall ==
    /\ pc = "input"
    /\ LET r == QuicksortRef(heap, students_ref, attribute, reverse)
       IN /\ heap' = r.heap
          /\ result_ref' = r.ref
    /\ pc' = "returned"
    /\ UNCHANGED <<heapFrame, students_ref, mutations>>

\* the caller appends a record to the returned list
ResultAppend ==
    /\ pc = "returned"
    /\ mutations < MaxMutations
    /\ heap' = [heap EXCEPT ![result_ref] = Append(@, NewRecord)]
    /\ mutations' = mutations + 1
    /\ UNCHANGED <<heapFrame, pc, students_ref, result_ref>>

\* the caller removes the last record of the returned list
ResultPop ==
    /\ pc = "returned"
    /\ mutations < MaxMutations
    /\ heap[result_ref] # <<>>
    /\ heap' = [heap EXCEPT ![result_ref] = SubSeq(@, 1, Len(@) - 1)]
    /\ mutations' = mutations + 1
    /\ UNCHANGED <<heapFrame, pc, students_ref, result_ref>>

\* the caller reverses the returned list in place
ResultReverse ==
    /\ pc = "returned"
    /\ mutations < MaxMutations
    /\ heap' = [heap EXCEPT ![result_ref] = ReverseSeq(@)]
    /\ mutations' = mutations + 1
    /\ UNCHANGED <<heapFrame, pc, students_ref, result_ref>>

NextHeap == HeapCall \/ ResultAppend \/ ResultPop \/ ResultReverse

SpecHeap == InitHeap /\ [][NextHeap]_vars

\* the list objects and the sequences compute the same result
HeapAgrees ==
    (pc = "returned" /\ mutations = 0) =>
        heap[result_ref] = quicksort(students, attribute, reverse)

\* C5: quicksort leaves the caller's list as it was, for every length, and
\* returns another list object: changing the membership or the order of the
\* returned list does not change the input.
InputUntouched ==
    pc = "returned" =>
        /\ heap[students_ref] = students
        /\ result_ref # students_ref

\* the caller changed the list returned for a one-record input
InputUntouchedWitness ==
    /\ pc = "returned"
    /\ Len(students) = 1
    /\ mutations = MaxMutations
    /\ heap[result_ref] # students
    /\ Len(heap[result_ref]) = 2

(***************************************************************************)
(* The menu operations on the stored collection (main_menu, lines 492-529):*)
(* every iteration loads students_db.json, runs one operation on the       *)
(* loaded list and, where the operation says so, saves the list.  db is    *)
(* the list json.load returns for the file: the file is only ever written  *)
(* by json.dump of such a list of strings and floats.                      *)
(***************************************************************************)
MaxRecords == 2    \* add is not offered once the collection has this many

\* str.strip() of the blanks typed around an input
RECURSIVE Strip(_)
Strip(s) ==
    IF s = <<>> THEN s
    ELSE IF s[1] = 32 THEN Strip(Tail(s))
    ELSE IF s[Len(s)] = 32 THEN Strip(SubSeq(s, 1, Len(s) - 1))
    ELSE s

\* float(text) for the inputs offered here: a digit is its value, anything
\* else offered ("", "x") raises ValueError
ParseFloat(s) ==
    IF Len(s) = 1 /\ s[1] \in 48..57
    THEN [ok |-> TRUE, val |-> s[1] - 48]
    ELSE [ok |-> FALSE, val |-> 0]

\* what the user may type
IdInputs == { <<>>, <<32>>, <<49>>, <<32, 49>>, <<50>>, <<51, 32>> }
AddTextInputs == { <<32, 97>> }                          \* " a"
UpdateTextInputs == { <<32>>, <<66>> }                   \* " ", "B"
KeepInputs == { <<>> }                                   \* Enter alone
AddGradeInputs == { <<49>>, <<120>> }                    \* "1", "x"
UpdateGradeInputs == { <<>>, <<48, 32>>, <<120>> }       \* "", "0 ", "x"
ChoiceInputs == { <<49>>, <<50>>, <<53, 32>>, <<54>>, <<55>> }   \* "1", "2", "5 ", "6", "7"
\* "", "desc", "DESCENDING "
OrderInputs == { <<>>, <<100, 101, 115, 99>>,
                 <<68, 69, 83, 67, 69, 78, 68, 73, 78, 71, 32>> }
\* "", "y", "Yes"
SaveInputs == { <<>>, <<121>>, <<89, 101, 115>> }

\* the test made on another key of the record
IdTakenWrongKey(list, student_id) ==
    \E k \in 1..Len(list) : list[k].first_name = Str(student_id)

\* line 89: any(s["student_id"] == student_id for s in students)
IdTaken(list, student_id) ==
    \E k \in 1..Len(list) : list[k].student_id = Str(student_id)

\* lines 293-300
AttributeMap(choice) ==
    IF choice = <<49>> THEN "student_id"
    ELSE IF choice = <<50>> THEN "first_name"
    ELSE IF choice = <<51>> THEN "last_name"
    ELSE IF choice = <<52>> THEN "course_name"
    ELSE IF choice = <<53>> THEN "semester"
    ELSE IF choice = <<54>> THEN "final_grade"
    ELSE "invalid"

Op(name, student_id) == [name |-> name, student_id |-> student_id]

InitDb ==
    /\ pc = "menu"
    /\ students = <<>>
    /\ attribute = "student_id"
    /\ reverse = FALSE
    /\ sorted_students = <<>>
    /\ resorted = <<>>
    /\ SearchIdle
    /\ CallIdle
    /\ heap = <<>>
    /\ students_ref = 0
    /\ result_ref = 0
    /\ mutations = 0
    /\ db = <<>>
    /\ saved = FALSE
    /\ op = Op("none", <<>>)

dbFrame == <<pc, students, attribute, reverse, sortVars, searchVars, callVars, heapVars>>

\* add_record, lines 72-115
AddRecord ==
    /\ Len(db) < MaxRecords
    /\ \E raw_id \in IdInputs, raw_text \in AddTextInputs, raw_grade \in AddGradeInputs :
          LET student_id == Strip(raw_id)
              text == Strip(raw_text)
              grade == ParseFloat(Strip(raw_grade))
          IN /\ op' = Op("add", student_id)
             /\ IF student_id = <<>> \/ IdTaken(db, student_id) \/ ~grade.ok
                THEN /\ db' = db
                     /\ saved' = FALSE
                ELSE /\ db' = Append(db, Record(student_id, text, text, text, text,
                                                grade.val))
                     /\ saved' = TRUE
    /\ UNCHANGED dbFrame

\* delete_record, lines 118-136
DeleteRecord ==
    /\ \E raw_id \in IdInputs :
          LET student_id == Strip(raw_id)
              kept == SelectSeq(db, LAMBDA s : s.student_id # Str(student_id))
          IN /\ op' = Op("delete", student_id)
             /\ IF Len(kept) < Len(db)
                THEN /\ db' = kept
                     /\ saved' = TRUE
                ELSE /\ db' = db
                     /\ saved' = FALSE
    /\ UNCHANGED dbFrame

\* a field of update_record: an empty input keeps the current value
Updated(current, raw) == IF Strip(raw) # <<>> THEN Str(Strip(raw)) ELSE current

\* lines 186-191: an empty or unparsable grade keeps the current value
UpdatedGrade(current, raw) ==
    IF Strip(raw) # <<>> /\ ParseFloat(Strip(raw)).ok
    THEN Num(ParseFloat(Strip(raw)).val)
    ELSE current

\* update_record, lines 139-194
UpdateRecord ==
    /\ \E raw_id \in IdInputs, fn \in KeepInputs, ln \in KeepInputs,
          cn \in KeepInputs, sem \in UpdateTextInputs, g \in UpdateGradeInputs :
          LET student_id == Strip(raw_id)
              found == { k \in 1..Len(db) : db[k].student_id = Str(student_id) }
          IN /\ op' = Op("update", student_id)
             /\ IF found = {}
                THEN /\ db' = db
                     /\ saved' = FALSE
                ELSE LET k == Min(found)
                         s == db[k]
                     IN /\ db' = [db EXCEPT ![k] =
                                    [student_id |-> s.student_id,
                                     first_name |-> Updated(s.first_name, fn),
                                     last_name |-> Updated(s.last_name, ln),
                                     course_name |-> Updated(s.course_name, cn),
                                     semester |-> Updated(s.semester, sem),
                                     final_grade |-> UpdatedGrade(s.final_grade, g)]]
                        /\ saved' = TRUE
    /\ UNCHANGED dbFrame

\* sort_records, lines 270-323
SortRecords ==
    /\ \E choice \in ChoiceInputs, order_in \in OrderInputs, save_in \in SaveInputs :
          LET attr == AttributeMap(Strip(choice))
              order == Lower(Strip(order_in))
              rev == (order = <<100, 101, 115, 99, 101, 110, 100, 105, 110, 103>>
                        \/ order = <<100, 101, 115, 99>>)
              save_choice == Lower(Strip(save_in))
          IN /\ op' = Op("sort", <<>>)
             /\ IF db = <<>> \/ attr = "invalid"
                   \/ ~(save_choice = <<121, 101, 115>> \/ save_choice = <<121>>)
                THEN /\ db' = db
                     /\ saved' = FALSE
                ELSE /\ db' = quicksort(db, attr, rev)
                     /\ saved' = TRUE
    /\ UNCHANGED dbFrame

NextDb == AddRecord \/ DeleteRecord \/ UpdateRecord \/ SortRecords

SpecDb == InitDb /\ [][NextDb]_vars

DistinctIds ==
    \A j, k \in 1..Len(db) : j # k => db[j].student_id # db[k].student_id

\* add with an empty or already stored student_id changes and saves nothing
AddRejects ==
    (op'.name = "add" /\ (op'.student_id = <<>> \/ \E k \in 1..Len(db) :
                              db[k].student_id.val = op'.student_id))
        => (db' = db /\ ~saved')

\* update leaves every record's student_id where it is
UpdateKeepsIds ==
    op'.name = "update" =>
        /\ Len(db') = Len(db)
        /\ \A k \in 1..Len(db) : db'[k].student_id = db[k].student_id

\* delete only removes records
DeleteOnlyRemoves ==
    op'.name = "delete" =>
        /\ Len(db') <= Len(db)
        /\ \A r \in Range(db') : Count(r, db') <= Count(r, db)

\* a sort stores a permutation of the loaded records, or nothing
SortStoresPermutation ==
    op'.name = "sort" => IsPermutation(db', db)

\* C10: from a stored collection with distinct student_id values, add,
\* delete, update and sort-with-save keep the values pairwise distinct: add
\* rejects an empty or stored id without saving, update leaves the ids,
\* delete only removes, a saved sort order is a permutation.
UniqueIds ==
    /\ []DistinctIds
    /\ [][AddRejects /\ UpdateKeepsIds /\ DeleteOnlyRemoves /\ SortStoresPermutation]_vars

\* a full collection whose order was changed by a saved sort
UniqueIdsWitness ==
    /\ Len(db) = MaxRecords
    /\ op.name = "sort"
    /\ saved
    /\ db[1].student_id.val = <<50>>
    /\ db[2].student_id.val = <<49>>
====
